---- MODULE Spec2Model ----
(***************************************************************************)
(* Model of analisi.py: the CSV parser (parse_csv_file), the verification  *)
(* balance parser (extract_data_from_verification_balance), the text area  *)
(* parser (parse_textarea_data), the analysis block run by the button      *)
(* 'Elabora Analisi', and the script as Streamlit reruns it.               *)
(*                                                                         *)
(* Text is modelled as TLA+ strings, handled character by character        *)
(* (Len, SubSeq and \o apply to strings in TLC).  Amounts are exact        *)
(* numbers of hundredths (an integer n stands for the float n/100), with   *)
(* NaN as a separate value; quotients are exact rationals.  Floating-point *)
(* rounding is not modelled.                                               *)
(***************************************************************************)
EXTENDS Integers, Sequences, FiniteSets, TLC

VARIABLES
    pc,                \* where the function or the script run modelled is
    pdf_table,         \* the table pdfplumber extracted from the uploaded PDF
    row_i,             \* the row the loop of the parser is at
    assets_data,       \* the three lists the parsers append to
    liabilities_data,
    income_data,
    ret,               \* the triple a parser returned
    csv_file,          \* the uploaded CSV: its encoding and its lines
    cfg_i,             \* the configuration parse_csv_file is trying
    df,                \* the DataFrame parse_csv_file holds
    st_error,          \* the message of st.error, "" when none was shown
    session_state,     \* st.session_state: assets_text, liabilities_text, income_text
    uploaded_file,     \* the file selected in st.file_uploader
    tax_rate,          \* the tax rate of st.number_input, over 100
    results,           \* what the analysis block computed in the last run
    user_text          \* the three texts as the user last left them

parserVars == <<row_i, assets_data, liabilities_data, income_data, ret>>

csvVars == <<csv_file, cfg_i, df, st_error>>

uiVars == <<session_state, uploaded_file, tax_rate, results, user_text>>

vars == <<pc, pdf_table, parserVars, csvVars, uiVars>>

(***************************************************************************)
(* Characters and strings (the str methods and re patterns the code uses)  *)
(***************************************************************************)
Char(s, i) == SubSeq(s, i, i)

Digits == {"0", "1", "2", "3", "4", "5", "6", "7", "8", "9"}

UpperChars == "ABCDEFGHIJKLMNOPQRSTUVWXYZÀ"

LowerChars == "abcdefghijklmnopqrstuvwxyzà"

IsDigit(c) == c \in Digits

DigitVal(c) == CHOOSE v \in 0..9 : ToString(v) = c

IsSpace(c) == c \in {" ", "\n", "\t"}

LowerSet == {Char(LowerChars, i) : i \in 1..Len(LowerChars)}

UpperSet == {Char(UpperChars, i) : i \in 1..Len(UpperChars)}

\* \w of the re module: letters, digits and the underscore.
WordChars == LowerSet \cup UpperSet \cup Digits \cup {"_"}

IsWordChar(c) == c \in WordChars

ToLower == [c \in UpperSet |-> Char(LowerChars, CHOOSE i \in 1..Len(UpperChars) : Char(UpperChars, i) = c)]

ToUpper == [c \in LowerSet |-> Char(UpperChars, CHOOSE i \in 1..Len(LowerChars) : Char(LowerChars, i) = c)]

LowerChar(c) == IF c \in UpperSet THEN ToLower[c] ELSE c

UpperChar(c) == IF c \in LowerSet THEN ToUpper[c] ELSE c

RECURSIVE Lower(_)
\* str.lower()
Lower(s) == IF s = "" THEN "" ELSE LowerChar(Char(s, 1)) \o Lower(SubSeq(s, 2, Len(s)))

RECURSIVE Upper(_)
\* str.upper()
Upper(s) == IF s = "" THEN "" ELSE UpperChar(Char(s, 1)) \o Upper(SubSeq(s, 2, Len(s)))

\* str.capitalize(): first character upper-cased, the rest lower-cased
Capitalize(s) ==
    IF s = "" THEN "" ELSE UpperChar(Char(s, 1)) \o Lower(SubSeq(s, 2, Len(s)))

\* sub in s
Contains(s, sub) ==
    \E i \in 1..(Len(s) - Len(sub) + 1) : SubSeq(s, i, i + Len(sub) - 1) = sub

StartsWith(s, p) == Len(p) <= Len(s) /\ SubSeq(s, 1, Len(p)) = p

\* any(kw in s for kw in kws)
ContainsAny(s, kws) == \E k \in 1..Len(kws) : Contains(s, kws[k])

RECURSIVE LStrip(_)
\* str.lstrip()
LStrip(s) == IF s # "" /\ IsSpace(Char(s, 1)) THEN LStrip(SubSeq(s, 2, Len(s))) ELSE s

RECURSIVE RStrip(_)
\* str.rstrip()
RStrip(s) ==
    IF s # "" /\ IsSpace(Char(s, Len(s))) THEN RStrip(SubSeq(s, 1, Len(s) - 1)) ELSE s

\* str.strip()
Strip(s) == RStrip(LStrip(s))

RECURSIVE ReplaceChar(_, _, _)
\* str.replace(a, b) for a single character a and a string b of length 0 or 1
ReplaceChar(s, a, b) ==
    IF s = "" THEN ""
    ELSE (IF Char(s, 1) = a THEN b ELSE Char(s, 1)) \o ReplaceChar(SubSeq(s, 2, Len(s)), a, b)

RECURSIVE Find(_, _, _)
\* str.find(sep, i) + 1 for a single character sep: 0 when s[i-1:] holds no sep
Find(s, sep, i) ==
    IF i > Len(s) THEN 0 ELSE IF Char(s, i) = sep THEN i ELSE Find(s, sep, i + 1)

RECURSIVE Split(_, _)
\* s is cut at i, the place of its first sep
SplitAt(s, sep, i) ==
    IF i = 0 THEN <<s>> ELSE <<SubSeq(s, 1, i - 1)>> \o Split(SubSeq(s, i + 1, Len(s)), sep)

\* str.split(sep) for a single character sep: never empty, "" gives <<"">>
Split(s, sep) == SplitAt(s, sep, Find(s, sep, 1))

RECURSIVE Join(_, _)
\* sep.join(parts)
Join(parts, sep) ==
    IF parts = <<>> THEN ""
    ELSE IF Len(parts) = 1 THEN parts[1]
    ELSE parts[1] \o sep \o Join(Tail(parts), sep)

AllDigits(s) == \A i \in 1..Len(s) : IsDigit(Char(s, i))

RECURSIVE DigitsVal(_)
DigitsVal(s) ==
    IF s = "" THEN 0 ELSE 10 * DigitsVal(SubSeq(s, 1, Len(s) - 1)) + DigitVal(Char(s, Len(s)))

(***************************************************************************)
(* Floats: [nan, n, d] is the exact number n/d of hundredths for d > 0     *)
(* (a parsed amount has d = 1), NaN when nan holds, and the                *)
(* ZeroDivisionError a division by zero raises when d = 0.                 *)
(* None is ok = FALSE.                                                     *)
(***************************************************************************)
F(v) == [nan |-> FALSE, n |-> v, d |-> 1]

NaN == [nan |-> TRUE, n |-> 0, d |-> 1]

ZeroDivisionError == [nan |-> FALSE, n |-> 0, d |-> 0]

None == [ok |-> FALSE, val |-> NaN]

Some(x) == [ok |-> TRUE, val |-> x]

\* The hundredths of a fractional part: "" is 0, "5" is 50, "05" is 5.  Digits
\* after the second are dropped: the inputs drawn have at most two.
FracVal(s) ==
    IF s = "" THEN 0
    ELSE IF Len(s) = 1 THEN 10 * DigitVal(Char(s, 1))
    ELSE DigitsVal(SubSeq(s, 1, 2))

\* The float of a sign and the integer and fractional digits around the point
FloatOfParts(neg, pts) ==
    IF /\ Len(pts) <= 2
       /\ AllDigits(pts[1]) /\ AllDigits(pts[Len(pts)])
       /\ Join(pts, "") # ""
    THEN Some(F((IF neg THEN 0 - 1 ELSE 1)
                * (100 * DigitsVal(pts[1]) + (IF Len(pts) = 2 THEN FracVal(pts[2]) ELSE 0))))
    ELSE None

\* The float of a sign and what follows it
FloatOfBody(neg, body) ==
    IF Lower(body) = "nan" THEN Some(NaN) ELSE FloatOfParts(neg, Split(body, "."))

\* The float of a string without surrounding whitespace
FloatOfStripped(s) ==
    FloatOfBody(StartsWith(s, "-"),
                IF StartsWith(s, "-") \/ StartsWith(s, "+") THEN SubSeq(s, 2, Len(s)) ELSE s)

\* float(s) of a string: surrounding whitespace is ignored; an optional sign, then
\* digits with an optional fractional part, or "nan".  ValueError is None.
\* Exponents, "inf" and digit-group underscores are not in the inputs drawn.
ParseFloat(str) == FloatOfStripped(Strip(str))

\* f"{x}" of a parsed amount: repr, the shortest decimal that reads back as x
FormatFloat(x) ==
    IF x.nan THEN "nan"
    ELSE LET mag == IF x.n < 0 THEN 0 - x.n ELSE x.n
             ip  == mag \div 100
             fr  == mag % 100
             fs  == IF fr % 10 = 0 THEN ToString(fr \div 10)
                    ELSE ToString(fr \div 10) \o ToString(fr % 10)
         IN  (IF x.n < 0 THEN "-" ELSE "") \o ToString(ip) \o "." \o fs

Abs(i) == IF i < 0 THEN 0 - i ELSE i

RECURSIVE GCD(_, _)
GCD(a, b) == IF b = 0 THEN a ELSE GCD(b, a % b)

\* n/d in lowest terms with a positive denominator (d # 0)
Q(n, d) ==
    LET g == GCD(Abs(n), Abs(d))
        s == IF d < 0 THEN 0 - 1 ELSE 1
    IN  [nan |-> FALSE, n |-> s * (n \div g), d |-> s * (d \div g)]

\* abs(x)
FAbs(x) == IF x.nan THEN x ELSE [x EXCEPT !.n = Abs(x.n)]

\* x + y
FAdd(x, y) == IF x.nan \/ y.nan THEN NaN ELSE Q(x.n * y.d + y.n * x.d, x.d * y.d)

\* x - y
FSub(x, y) == IF x.nan \/ y.nan THEN NaN ELSE Q(x.n * y.d - y.n * x.d, x.d * y.d)

\* x * y
FMul(x, y) == IF x.nan \/ y.nan THEN NaN ELSE Q(x.n * y.n, x.d * y.d)

\* x / y: float division by zero raises, also of NaN
FDiv(x, y) ==
    IF ~y.nan /\ y.n = 0 THEN ZeroDivisionError
    ELSE IF x.nan \/ y.nan THEN NaN
    ELSE Q(x.n * y.d, x.d * y.n)

\* x > 0: any comparison with NaN is False
FPos(x) == ~x.nan /\ x.n > 0

\* x < 0
FNeg(x) == ~x.nan /\ x.n < 0

\* x >= 0
FNonNeg(x) == ~x.nan /\ x.n >= 0

\* A row that is appended to no list
NoLine == [out |-> "none", line |-> ""]

(***************************************************************************)
(* clean_and_convert_amount                                                *)
(***************************************************************************)
clean_and_convert_amount(amount_str) ==
    IF amount_str = "" THEN None
    ELSE ParseFloat(ReplaceChar(ReplaceChar(ReplaceChar(Strip(amount_str), " ", ""),
                                            ".", ""), ",", "."))

(***************************************************************************)
(* parse_textarea_data                                                     *)
(***************************************************************************)
\* The type of a row with no third part (None): no capitalize() gives it.
NoType == "NONE"

\* data.append({'item': item, 'amount': amount, 'type': ce_type}), or None for the
\* ValueError of float()
RowOf(parts, amount) ==
    IF ~amount.ok THEN [ok |-> FALSE]
    ELSE [ok  |-> TRUE,
          row |-> [item   |-> Strip(parts[1]),
                   amount |-> amount.val,
                   type   |-> IF Len(parts) > 2 THEN Capitalize(Strip(parts[3])) ELSE NoType]]

\* The try block on the parts of a line: IndexError on parts[1] is None
TryParts(parts) ==
    IF Len(parts) < 2 THEN [ok |-> FALSE] ELSE RowOf(parts, ParseFloat(Strip(parts[2])))

\* One line of the text area: the row it appends, or None (empty line, IndexError,
\* ValueError)
ParseLine(line) == IF line = "" THEN [ok |-> FALSE] ELSE TryParts(Split(line, ","))

\* data after the line parsed as r, rest being data for the lines after it
Appended(r, rest) == IF r.ok THEN <<r.row>> \o rest ELSE rest

RECURSIVE ParseLines(_)
ParseLines(lines) ==
    IF lines = <<>> THEN <<>> ELSE Appended(ParseLine(Head(lines)), ParseLines(Tail(lines)))

parse_textarea_data(text) == ParseLines(Split(Strip(text), "\n"))

(***************************************************************************)
(* KEYWORDS, MACRO_REGEX, FUND_REGEX                                       *)
(***************************************************************************)
KW_assets_current ==
    <<"cassa", "banca", "crediti", "clienti", "rimanenze", "scorte", "ratei attivi",
      "risconti attivi", "liquidità", "depositi bancari", "denaro e valori">>

KW_assets_non_current ==
    <<"immobilizzazioni", "impianti", "macchinari", "attrezzature", "fabbricati",
      "terreni", "brevetti", "marchi", "software", "partecipazioni", "mobili e arredi",
      "macchine d'ufficio", "auto", "autocarri">>

KW_liabilities_current ==
    <<"debiti", "fornitori", "tributari", "erario", "inps", "inail", "dipendenti",
      "ratei passivi", "risconti passivi", "banche c/c passivi">>

KW_liabilities_non_current ==
    <<"mutui", "finanziamenti", "tfr", "trattamento fine rapporto">>

KW_liabilities_equity ==
    <<"capitale", "riserve", "utile", "perdita", "patrimonio netto">>

KW_special_negative ==
    <<"f.do amm", "fondo amm", "fondo ammortamenti", "ammortamenti">>

KW_income_variable ==
    <<"materie", "consumo", "acquisti", "sussidiarie", "lavorazioni",
      "costi per materie", "rim.fin", "rim.iniz">>

MacroWords ==
    <<"ATTIVIT", "PASSIVIT", "PATRIMONIO", "CONTO ECONOMICO", "RICLASSIFICAZIONE",
      "TOTALE", "RIEPILOGO">>

\* \b between the characters p-1 and p of s
WordBoundary(s, p) ==
    (p > 1 /\ IsWordChar(Char(s, p - 1))) # (p <= Len(s) /\ IsWordChar(Char(s, p)))

\* s[p:] starts with lit
LitAt(s, p, lit) == p + Len(lit) - 1 <= Len(s) /\ SubSeq(s, p, p + Len(lit) - 1) = lit

\* MACRO_REGEX.search(desc): ^(ATTIVIT|...|RIEPILOGO)\b, re.I
MACRO_REGEX(desc) ==
    \E k \in 1..Len(MacroWords) :
        /\ LitAt(Upper(desc), 1, MacroWords[k])
        /\ WordBoundary(desc, Len(MacroWords[k]) + 1)

\* amm(?:ortamenti)?\b at k, after \s* from j
AmmFrom(s, j, k) ==
    /\ \A q \in j..(k - 1) : IsSpace(Char(s, q))
    /\ LitAt(s, k, "amm")
    /\ \/ WordBoundary(s, k + 3)
       \/ LitAt(s, k + 3, "ortamenti") /\ WordBoundary(s, k + 12)

\* The places after f(\.|ondo)? for an f at i
AfterF(s, i) ==
    {i + 1} \cup (IF LitAt(s, i + 1, ".") THEN {i + 2} ELSE {})
            \cup (IF LitAt(s, i + 1, "ondo") THEN {i + 5} ELSE {})

\* The pattern of FUND_REGEX matches the lower-cased s at i
FundAt(s, i) ==
    /\ WordBoundary(s, i)
    /\ \/ LitAt(s, i, "ammortamenti") /\ WordBoundary(s, i + 12)
       \/ /\ LitAt(s, i, "f")
          /\ \E j \in AfterF(s, i) : \E k \in j..(Len(s) + 1) : AmmFrom(s, j, k)

\* The pattern matches the lower-cased s somewhere
FundIn(s) == \E i \in 1..Len(s) : FundAt(s, i)

\* FUND_REGEX.search(s): \b(f(\.|ondo)?\s*amm(?:ortamenti)?|ammortamenti)\b, re.I
FUND_REGEX(str) == FundIn(Lower(str))

(***************************************************************************)
(* extract_data_from_verification_balance, one table row at a time         *)
(***************************************************************************)
RECURSIVE DropDigits(_)
\* s without its leading \d*
DropDigits(s) ==
    IF s # "" /\ IsDigit(Char(s, 1)) THEN DropDigits(SubSeq(s, 2, Len(s))) ELSE s

RECURSIVE DropPunct(_)
\* s without its leading [\.\-\s]*
DropPunct(s) ==
    IF s # "" /\ Char(s, 1) \in {".", "-", " ", "\n", "\t"}
    THEN DropPunct(SubSeq(s, 2, Len(s))) ELSE s

\* re.sub(r'^\d+[\.\-\s]*', '', s)
StripLeadingNumber(s) ==
    IF s = "" \/ ~IsDigit(Char(s, 1)) THEN s ELSE DropPunct(DropDigits(s))

\* cells = [(c or "").strip() for c in row]
Cells(row) == [k \in 1..Len(row) |-> Strip(row[k])]

\* desc of a row
Description(cells) == Strip(StripLeadingNumber(ReplaceChar(cells[1], "\n", " ")))

\* headers = [(c or "").strip().lower() for c in table[0]]
Headers(table) == [k \in 1..Len(table[1]) |-> Lower(Strip(table[1][k]))]

HasHeader(table) ==
    \E k \in 1..Len(table[1]) :
        ContainsAny(Headers(table)[k], <<"descr", "dare", "avere", "saldo">>)

\* lower_headers
LowerHeaders(table) == IF HasHeader(table) THEN Headers(table) ELSE <<>>

\* start_idx + 1: the first row of table[start_idx:]
StartRow(table) == IF HasHeader(table) THEN 2 ELSE 1

\* ^([\-]?\d[\d\.]*,\d{2})([DA])$ on c2 of length n, its first digit at b
Caso1MatchFrom(c2, n, b) ==
    /\ n >= b + 4
    /\ Upper(Char(c2, n)) \in {"D", "A"}
    /\ IsDigit(Char(c2, n - 1)) /\ IsDigit(Char(c2, n - 2))
    /\ Char(c2, n - 3) = ","
    /\ IsDigit(Char(c2, b))
    /\ \A j \in (b + 1)..(n - 4) : IsDigit(Char(c2, j)) \/ Char(c2, j) = "."

\* re.match(r'^([\-]?\d[\d\.]*,\d{2})([DA])$', c2, re.I)
Caso1Match(c2) == Caso1MatchFrom(c2, Len(c2), IF StartsWith(c2, "-") THEN 2 ELSE 1)

NoSaldo == [amount |-> None, side |-> "None"]

RECURSIVE Caso1From(_, _)
\* The pass of the loop of Caso 1 on the cell k, c2 being the cell without spaces
Caso1At(cells, k, c2) ==
    IF Caso1Match(c2)
    THEN [amount |-> clean_and_convert_amount(SubSeq(c2, 1, Len(c2) - 1)),
          side   |-> Upper(Char(c2, Len(c2)))]
    ELSE Caso1From(cells, k + 1)

\* for c in cells[1:], from the cell k
Caso1From(cells, k) ==
    IF k > Len(cells) THEN NoSaldo ELSE Caso1At(cells, k, ReplaceChar(cells[k], " ", ""))

\* Caso 1: the first cell after the description holding "amount side"
Caso1(cells) == Caso1From(cells, 2)

RECURSIVE Caso2From(_, _)
\* The pass of the loop of Caso 2 on the cell k
Caso2At(cells, k, imp, seg) ==
    IF imp.ok /\ seg \in {"D", "A"} THEN [amount |-> imp, side |-> seg]
    ELSE Caso2From(cells, k + 1)

\* for i in range(1, len(cells) - 1), from the cell k
Caso2From(cells, k) ==
    IF k > Len(cells) - 1 THEN NoSaldo
    ELSE Caso2At(cells, k, clean_and_convert_amount(cells[k]), Upper(Strip(cells[k + 1])))

\* Caso 2: amount and side in adjacent cells
Caso2(cells) == Caso2From(cells, 2)

RECURSIVE FirstHeader(_, _, _)
\* next((i for i, h in enumerate(lower_headers) if "saldo" in h and word in h), None),
\* from the header k: the place of the header, 0 for None
FirstHeader(lower_headers, word, k) ==
    IF k > Len(lower_headers) THEN 0
    ELSE IF Contains(lower_headers[k], "saldo") /\ Contains(lower_headers[k], word) THEN k
    ELSE FirstHeader(lower_headers, word, k + 1)

\* sd_val, sa_val: the amount of the cell under the header idx
Val(cells, idx) ==
    IF idx # 0 /\ idx <= Len(cells) THEN clean_and_convert_amount(cells[idx]) ELSE None

\* if (sd_val or 0) > 0: ... elif (sa_val or 0) > 0: ...
Dedicated(sd_val, sa_val) ==
    IF sd_val.ok /\ FPos(sd_val.val) THEN [amount |-> sd_val, side |-> "D"]
    ELSE IF sa_val.ok /\ FPos(sa_val.val) THEN [amount |-> sa_val, side |-> "A"]
    ELSE NoSaldo

RECURSIVE LastNumeric(_, _)
\* i_last: the last of the cells 2..k holding an amount, 0 when none does
LastNumeric(cells, k) ==
    IF k < 2 THEN 0
    ELSE IF clean_and_convert_amount(cells[k]).ok THEN k
    ELSE LastNumeric(cells, k - 1)

\* The side of the last amount by the name of its column, or by its sign
Fallback(val_last, col_name) ==
    IF Contains(col_name, "dare") THEN [amount |-> Some(val_last), side |-> "D"]
    ELSE IF Contains(col_name, "avere") THEN [amount |-> Some(val_last), side |-> "A"]
    ELSE [amount |-> Some(FAbs(val_last)), side |-> IF FNeg(val_last) THEN "A" ELSE "D"]

\* if numeric_cells: ...
FallbackAt(cells, lower_headers, i_last) ==
    IF i_last = 0 THEN NoSaldo
    ELSE Fallback(clean_and_convert_amount(cells[i_last]).val,
                  IF i_last <= Len(lower_headers) THEN lower_headers[i_last] ELSE "")

\* Caso 3 for the places sd_idx and sa_idx of the dedicated columns
Caso3At(cells, lower_headers, sd_idx, sa_idx) ==
    IF sd_idx # 0 \/ sa_idx # 0 THEN Dedicated(Val(cells, sd_idx), Val(cells, sa_idx))
    ELSE FallbackAt(cells, lower_headers, LastNumeric(cells, Len(cells)))

\* Caso 3: SALDO DARE / SALDO AVERE columns, or the last numeric cell
Caso3(cells, lower_headers) ==
    Caso3At(cells, lower_headers, FirstHeader(lower_headers, "dare", 1),
            FirstHeader(lower_headers, "avere", 1))

\* if saldo_amount is None: the next case is tried, and sets nothing when it finds
\* no amount
OrElse(found, next) ==
    IF found.amount.ok THEN found
    ELSE IF next.amount.ok THEN next
    ELSE [amount |-> None, side |-> found.side]

\* saldo_amount, saldo_side after the three cases
Saldo(cells, lower_headers) ==
    OrElse(OrElse(Caso1(cells), Caso2(cells)), Caso3(cells, lower_headers))

\* The if/else on saldo_side, item_lower being desc.lower()
ClassifyItem(desc, item_lower, saldo_amount, saldo_side) ==
    IF saldo_side = "D"
    THEN IF ContainsAny(item_lower, KW_assets_current \o KW_assets_non_current)
         THEN [out |-> "assets", line |-> desc \o "," \o FormatFloat(saldo_amount)]
         ELSE [out  |-> "income",
               line |-> desc \o "," \o FormatFloat(saldo_amount) \o ","
                        \o (IF ContainsAny(item_lower, KW_income_variable)
                            THEN "Variabile" ELSE "Fisso")]
    ELSE IF FundIn(item_lower)
         THEN [out |-> "liabilities", line |-> desc \o "," \o FormatFloat(FAbs(saldo_amount))]
         ELSE IF ContainsAny(item_lower, KW_liabilities_current
                                 \o KW_liabilities_non_current \o KW_liabilities_equity)
         THEN [out |-> "liabilities", line |-> desc \o "," \o FormatFloat(saldo_amount)]
         ELSE [out |-> "income", line |-> desc \o "," \o FormatFloat(saldo_amount) \o ",Ricavo"]

\* Classify with a depreciation fund of the 'A' side booked as an asset
ClassifyFundAsAsset(desc, saldo_amount, saldo_side) ==
    IF saldo_side = "A" /\ FUND_REGEX(Lower(desc))
    THEN [out |-> "assets", line |-> desc \o "," \o FormatFloat(FAbs(saldo_amount))]
    ELSE ClassifyItem(desc, Lower(desc), saldo_amount, saldo_side)

\* The list a row with a balance is appended to, and the line appended
Classify(desc, saldo_amount, saldo_side) ==
    ClassifyItem(desc, Lower(desc), saldo_amount, saldo_side)

\* if saldo_amount is None or saldo_side not in ("D", "A"): continue
RowOfSaldo(desc, s) ==
    IF ~s.amount.ok \/ s.side \notin {"D", "A"} THEN NoLine
    ELSE Classify(desc, s.amount.val, s.side)

\* if not desc or MACRO_REGEX.search(desc): continue
RowOfDesc(cells, desc, lower_headers) ==
    IF desc = "" \/ MACRO_REGEX(desc) THEN NoLine
    ELSE RowOfSaldo(desc, Saldo(cells, lower_headers))

\* if len(cells) < 2: continue
RowOfCells(cells, lower_headers) ==
    IF Len(cells) < 2 THEN NoLine ELSE RowOfDesc(cells, Description(cells), lower_headers)

\* The body of `for row in table[start_idx:]`
PdfRow(row, lower_headers) == RowOfCells(Cells(row), lower_headers)

(***************************************************************************)
(* The analysis block of the button 'Elabora Analisi'                      *)
(***************************************************************************)
RECURSIVE SumAmounts(_)
\* sum(d['amount'] for d in rows)
SumAmounts(rows) ==
    IF rows = <<>> THEN F(0) ELSE FAdd(Head(rows).amount, SumAmounts(Tail(rows)))

\* FUND_REGEX.search(item.lower()) or any(kw in item.lower() for kw in special_negative)
IsFund(d) == FUND_REGEX(Lower(d.item)) \/ ContainsAny(Lower(d.item), KW_special_negative)

IsCurrentAsset(d) == ContainsAny(Lower(d.item), KW_assets_current)

IsNonCurrentAsset(d) == ContainsAny(Lower(d.item), KW_assets_non_current)

\* the rows of liabilities_no_funds summed in bs['current_liabilities']
IsCurrentLiability(d) == ~IsFund(d) /\ ContainsAny(Lower(d.item), KW_liabilities_current)

\* the rows of liabilities_no_funds summed in bs['non_current_liabilities']
IsNonCurrentLiability(d) == ~IsFund(d) /\ ContainsAny(Lower(d.item), KW_liabilities_non_current)

\* the rows of liabilities_no_funds summed in bs['equity']
IsEquity(d) == ~IsFund(d) /\ ContainsAny(Lower(d.item), KW_liabilities_equity)

IsRimanenze(d) == Contains(Lower(d.item), "rimanenze") \/ Contains(Lower(d.item), "scorte")

IsUtile(d) == Contains(Lower(d.item), "utile d'esercizio") \/ Lower(d.item) = "utile"

IsRevenue(d) == d.type = "Ricavo"

IsVariableCost(d) == d.type = "Variabile"

IsFixedCost(d) == d.type = "Fisso" /\ ~Contains(Lower(d.item), "utile")

IsInterest(d) ==
    Contains(Lower(d.item), "interessi") \/ Contains(Lower(d.item), "oneri finanziari")

\* num / den if den >= 0 else 0
QuotientIfNonNegative(num, den) == IF FNonNeg(den) THEN FDiv(num, den) ELSE F(0)

\* num / den if den > 0 else 0
QuotientIfPositive(num, den) == IF FPos(den) THEN FDiv(num, den) ELSE F(0)

\* the `if not ... or not ... or not ...` test with `and` for `or`
AllMissing(a, l, i) == a = <<>> /\ l = <<>> /\ i = <<>>

\* not assets_data or not liabilities_data or not income_data
Insufficient(a, l, i) == a = <<>> \/ l = <<>> \/ i = <<>>

NoResults == [shown |-> "info"]

\* The sums over the parsed rows: each is computed once, as the script does
Sums(a_data, l_data, i_data) ==
    [total_raw_assets        |-> SumAmounts(a_data),
     amortization_funds      |-> SumAmounts(SelectSeq(l_data, IsFund)),
     current_assets_raw      |-> SumAmounts(SelectSeq(a_data, IsCurrentAsset)),
     non_current_assets_raw  |-> SumAmounts(SelectSeq(a_data, IsNonCurrentAsset)),
     current_liabilities     |-> SumAmounts(SelectSeq(l_data, IsCurrentLiability)),
     non_current_liabilities |-> SumAmounts(SelectSeq(l_data, IsNonCurrentLiability)),
     equity                  |-> SumAmounts(SelectSeq(l_data, IsEquity)),
     rimanenze               |-> SumAmounts(SelectSeq(a_data, IsRimanenze)),
     utile_from_pdf          |-> SumAmounts(SelectSeq(i_data, IsUtile)),
     revenues                |-> SumAmounts(SelectSeq(i_data, IsRevenue)),
     variable_costs          |-> SumAmounts(SelectSeq(i_data, IsVariableCost)),
     fixed_costs             |-> SumAmounts(SelectSeq(i_data, IsFixedCost)),
     interest                |-> SumAmounts(SelectSeq(i_data, IsInterest))]

\* The values derived from the sums s before the ratios
Calcoli(s, rate) ==
    LET net_total_assets    == FSub(s.total_raw_assets, s.amortization_funds)
        equity              == IF FPos(s.utile_from_pdf) THEN FAdd(s.equity, s.utile_from_pdf)
                               ELSE s.equity
        contribution_margin == FSub(s.revenues, s.variable_costs)
        ebit                == FSub(contribution_margin, s.fixed_costs)
        ebt                 == FSub(ebit, s.interest)
        taxes               == IF FPos(ebt) THEN FMul(ebt, rate) ELSE F(0)
    IN  [total_raw_assets        |-> s.total_raw_assets,
         amortization_funds      |-> s.amortization_funds,
         net_total_assets        |-> net_total_assets,
         current_assets          |-> s.current_assets_raw,
         non_current_assets      |-> FSub(s.non_current_assets_raw, s.amortization_funds),
         current_liabilities     |-> s.current_liabilities,
         non_current_liabilities |-> s.non_current_liabilities,
         equity                  |-> equity,
         rimanenze               |-> s.rimanenze,
         total_liabilities_and_equity |->
             FAdd(FAdd(s.current_liabilities, s.non_current_liabilities), equity),
         revenues                |-> s.revenues,
         variable_costs          |-> s.variable_costs,
         fixed_costs             |-> s.fixed_costs,
         contribution_margin     |-> contribution_margin,
         ebit                    |-> ebit,
         interest                |-> s.interest,
         ebt                     |-> ebt,
         taxes                   |-> taxes,
         net_income              |-> FSub(ebt, taxes)]

\* ratios = {...}
Ratios(c) ==
    [current_ratio   |-> QuotientIfPositive(c.current_assets, c.current_liabilities),
     quick_ratio     |-> QuotientIfPositive(FSub(c.current_assets, c.rimanenze),
                                            c.current_liabilities),
     debt_to_equity  |-> QuotientIfPositive(
                             FAdd(c.current_liabilities, c.non_current_liabilities), c.equity),
     ros             |-> QuotientIfPositive(c.ebit, c.revenues),
     roe             |-> QuotientIfPositive(c.net_income, c.equity),
     roi             |-> QuotientIfPositive(c.ebit, c.net_total_assets),
     contribution_margin_ratio |-> QuotientIfPositive(c.contribution_margin, c.revenues),
     break_even_point |-> IF FPos(c.contribution_margin) /\ FPos(c.revenues)
                          THEN FDiv(c.fixed_costs, FDiv(c.contribution_margin, c.revenues))
                          ELSE F(0)]

\* The display of the balance check.  Amounts are hundredths: 20 is 2000.
Controllo(c) ==
    LET balance_diff == FSub(c.net_total_assets, c.total_liabilities_and_equity)
    IN  [balance_diff |-> balance_diff,
         balanced     |-> ~balance_diff.nan /\ Abs(balance_diff.n) < 2000 * balance_diff.d]

\* What the else branch has computed and displayed: calcoli c, ratios r, check k
Shown(c, r, k) ==
    [shown |-> "results", calcoli |-> c, ratios |-> r, balance_diff |-> k.balance_diff,
     balanced |-> k.balanced]

Display(c) == Shown(c, Ratios(c), Controllo(c))

\* The else branch of the button's run
Analysis(a_data, l_data, i_data, rate) == Display(Calcoli(Sums(a_data, l_data, i_data), rate))

\* if analyze_button: what the run shows and computes from the three parsed lists
Elaborate(a_data, l_data, i_data, rate) ==
    IF Insufficient(a_data, l_data, i_data) THEN [shown |-> "Dati insufficienti"]
    ELSE Analysis(a_data, l_data, i_data, rate)

(***************************************************************************)
(* pd.read_csv(io.BytesIO(csv_content), encoding, sep, engine='python')    *)
(*                                                                         *)
(* A file is [utf8, lines]: whether its bytes decode as UTF-8, and its     *)
(* lines, the header first.  No cell drawn holds a quote, and no row drawn *)
(* has more fields than the header under the separator it was written      *)
(* with.  A cell is [na, s]: an empty field is read as NaN.                *)
(***************************************************************************)
NoCsv == [utf8 |-> TRUE, lines |-> <<>>]

NoDf == [ok |-> FALSE, columns |-> <<>>, rows |-> <<>>]

configs ==
    <<[encoding |-> "utf-8", sep |-> ","],
      [encoding |-> "utf-8", sep |-> ";"],
      [encoding |-> "latin-1", sep |-> ","],
      [encoding |-> "latin-1", sep |-> ";"]>>

\* bytes.decode(encoding) of a line: the two UTF-8 bytes of the letter à (the one
\* non-ASCII letter of the files drawn) read as latin-1 are two characters
Decode(file, encoding, line) ==
    IF encoding = "latin-1" /\ file.utf8
    THEN ReplaceChar(line, "à", "Ã ")
    ELSE line

\* pandas renames a repeated column name: x, x.1, x.2
Mangle(names) ==
    [k \in 1..Len(names) |->
        LET before == Cardinality({j \in 1..(k - 1) : names[j] = names[k]})
        IN  IF before = 0 THEN names[k] ELSE names[k] \o "." \o ToString(before)]

Cell(field) == [na |-> field = "", s |-> field]

NaCell == [na |-> TRUE, s |-> ""]

\* The fields of each line under the separator of config
Fields(file, config) ==
    [k \in 1..Len(file.lines) |->
        Split(Decode(file, config.encoding, file.lines[k]), config.sep)]

\* The frame of the fields under the column names: a row with more fields than the
\* header is ParserError, the fields a row lacks are NaN
FrameOf(fields, columns) ==
    IF \E k \in 2..Len(fields) : Len(fields[k]) > Len(columns) THEN NoDf
    ELSE [ok      |-> TRUE,
          columns |-> columns,
          rows    |-> [k \in 1..(Len(fields) - 1) |->
                         [c \in 1..Len(columns) |->
                             IF c <= Len(fields[k + 1]) THEN Cell(fields[k + 1][c])
                             ELSE NaCell]]]

Frame(fields) == FrameOf(fields, Mangle(fields[1]))

\* The DataFrame, or ok = FALSE for UnicodeDecodeError and ParserError
ReadCsv(file, config) ==
    IF config.encoding = "utf-8" /\ ~file.utf8 THEN NoDf ELSE Frame(Fields(file, config))

(***************************************************************************)
(* parse_csv_file                                                          *)
(***************************************************************************)
\* cols_norm = [c.lower().strip() for c in df.columns]
ColsNorm(columns) == [k \in 1..Len(columns) |-> Strip(Lower(columns[k]))]

\* df.columns = [col.strip().lower() for col in df.columns]
NormColumns(columns) == [k \in 1..Len(columns) |-> Lower(Strip(columns[k]))]

InSeq(x, seq) == \E k \in 1..Len(seq) : seq[k] = x

\* required_cols without 'sezione'
required_cols_no_sezione == <<"voce", "importo">>

required_cols == <<"voce", "importo", "sezione">>

\* if 'voce' in cols_norm: break, else: df = None, for the frame r read
Tried(r) ==
    IF r.ok /\ InSeq("voce", ColsNorm(r.columns)) THEN [df |-> r, break |-> TRUE]
    ELSE [df |-> NoDf, break |-> FALSE]

\* One pass of `for config in configs`: the DataFrame kept (ok = FALSE is None) and
\* whether the loop breaks
TryConfig(file, config) == Tried(ReadCsv(file, config))

\* str(x) of a cell
Str(cell) == IF cell.na THEN "nan" ELSE cell.s

\* float(x) of a cell: None is ValueError
Float(cell) == IF cell.na THEN Some(NaN) ELSE ParseFloat(cell.s)

\* row[name]: the cell of the first column of that name
Get(columns, row, name) == row[CHOOSE k \in 1..Len(columns) : columns[k] = name]

\* if 'attivit' in sezione: ... elif 'passivit' in sezione or 'pn' in sezione: ...
\* elif 'conto economico' in sezione: ...  The list the row is appended to.
ListOf(sezione) ==
    IF Contains(sezione, "attivit") THEN "assets"
    ELSE IF Contains(sezione, "passivit") \/ Contains(sezione, "pn") THEN "liabilities"
    ELSE IF Contains(sezione, "conto economico") THEN "income"
    ELSE "none"

\* str(row.get('tipo', 'Fisso')).capitalize()
Tipo(columns, row) ==
    IF InSeq("tipo", columns) THEN Capitalize(Str(Get(columns, row, "tipo")))
    ELSE Capitalize("Fisso")

\* The line appended to the list `list` for voce and importo
LineOf(list, voce, importo, columns, row) ==
    IF list = "none" THEN NoLine
    ELSE IF list = "income"
    THEN [out |-> list,
          line |-> voce \o "," \o FormatFloat(importo) \o "," \o Tipo(columns, row)]
    ELSE [out |-> list, line |-> voce \o "," \o FormatFloat(importo)]

\* The body of the loop once float(row['importo']) is importo: None is ValueError
RowOfImporto(columns, row, importo) ==
    IF ~importo.ok THEN [out |-> "ValueError", line |-> ""]
    ELSE LineOf(ListOf(Lower(Str(Get(columns, row, "sezione")))),
                Strip(Str(Get(columns, row, "voce"))), importo.val, columns, row)

\* The body of `for _, row in df.iterrows()`, columns being the normalised names.
\* row['voce'] of a frame without that column is KeyError: the check of
\* required_cols keeps such a frame out of the loop.
CsvRow(columns, row) ==
    IF ~InSeq("voce", columns) \/ ~InSeq("importo", columns) \/ ~InSeq("sezione", columns)
    THEN [out |-> "KeyError", line |-> ""]
    ELSE RowOfImporto(columns, row, Float(Get(columns, row, "importo")))

EmptyTriple == <<"", "", "">>

\* The lines appended to one list by the rows whose outcomes are outs
LinesOf(outs, name) ==
    LET sel == SelectSeq(outs, LAMBDA r : r.out = name)
    IN  [k \in 1..Len(sel) |-> sel[k].line]

\* "\n".join(assets_data), "\n".join(liabilities_data), "\n".join(income_data)
Joined(outs) ==
    <<Join(LinesOf(outs, "assets"), "\n"),
      Join(LinesOf(outs, "liabilities"), "\n"),
      Join(LinesOf(outs, "income"), "\n")>>

RECURSIVE ConfigLoop(_, _)
\* The loop after the pass t on configs[k]
LoopAfter(file, k, t) ==
    IF t.break \/ k = Len(configs) THEN t.df ELSE ConfigLoop(file, k + 1)

\* for config in configs, from configs[k]: the DataFrame the loop ends with
ConfigLoop(file, k) == LoopAfter(file, k, TryConfig(file, configs[k]))

\* The function after the loop over the rows, their outcomes being outs
ParseRows(outs) ==
    IF \E k \in 1..Len(outs) : outs[k].out \in {"ValueError", "KeyError"}
    THEN [raised |-> TRUE, ret |-> EmptyTriple, error |-> ""]
    ELSE [raised |-> FALSE, ret |-> Joined(outs), error |-> ""]

\* The function from the check of required_cols on
ParseColumns(columns, rows) ==
    IF \E k \in 1..Len(required_cols) : ~InSeq(required_cols[k], columns)
    THEN [raised |-> FALSE, ret |-> EmptyTriple, error |-> "Errore nelle colonne del CSV."]
    ELSE ParseRows([k \in 1..Len(rows) |-> CsvRow(columns, rows[k])])

\* The function after the loop over the configs, d being df
ParseFrame(d) ==
    IF ~d.ok
    THEN [raised |-> FALSE, ret |-> EmptyTriple,
          error |-> "Errore critico: Impossibile analizzare il file CSV."]
    ELSE ParseColumns(NormColumns(d.columns), d.rows)

\* parse_csv_file as the script calls it: what it returns, the error it shows (the
\* lists of column names it ends with left out), and whether an exception left it
parse_csv_file(file) == ParseFrame(ConfigLoop(file, 1))

\* The lines of the rows of a table from its row `start` on
TableRows(table, lower_headers, start) ==
    Joined([k \in 1..(Len(table) - start + 1) |-> PdfRow(table[start + k - 1], lower_headers)])

\* extract_data_from_verification_balance as the script calls it, on a PDF of one
\* page holding one table
extract_data_from_verification_balance(table) ==
    IF table = <<>> \/ Len(table[1]) < 3 THEN EmptyTriple
    ELSE TableRows(table, LowerHeaders(table), StartRow(table))

(***************************************************************************)
(* One run of the script (Streamlit reruns it on every interaction)        *)
(***************************************************************************)
NoFile == [name |-> "", csv |-> NoCsv, table |-> <<>>]

\* ext = uploaded_file.name.split('.')[-1].lower()
Ext(name) == LET parts == Split(name, ".") IN Lower(parts[Len(parts)])

\* if uploaded_file: the three texts the parser of the file's extension returns,
\* and the error parse_csv_file shows
\* What the sidebar keeps of a call r of parse_csv_file
Returned(r) == [ret |-> r.ret, error |-> r.error]

Extracted(file) ==
    IF Ext(file.name) = "pdf"
    THEN [ret |-> extract_data_from_verification_balance(file.table), error |-> ""]
    ELSE IF Ext(file.name) = "csv"
    THEN Returned(parse_csv_file(file.csv))
    ELSE [ret |-> EmptyTriple, error |-> "Formato file non supportato."]

\* st.session_state when the text areas are drawn: state is st.session_state as
\* the run starts (the widgets' new values in it), triple what was extracted from
\* the file selected
SessionAfterUpload(state, file, triple) ==
    IF file # NoFile
    THEN [assets_text |-> triple[1], liabilities_text |-> triple[2], income_text |-> triple[3]]
    ELSE state

SeqsUpTo(S, n) == UNION {[1..k -> S] : k \in 0..n}

(***************************************************************************)
(* The files drawn for parse_csv_file                                      *)
(***************************************************************************)
MaxCsvRows == 2

\* Headers holding the three required columns, as lists of column names
CsvGoodHeaders ==
    {<<"voce", "importo", "sezione">>,
     <<"Voce", " IMPORTO ", "sezione", "Tipo">>,
     <<"sezione", "tipo", "importo", "voce">>}

\* Header lines that lack a required column under some or all separators
CsvOtherHeaderLines ==
    {"voce,importo", "voce;sezione;tipo", "importo,sezione,tipo", "voce", "descrizione,saldo",
     "voce,voce,importo", "voce,x;importo;sezione", "voce,x;voce;importo;sezione",
     "voce;x,importo,sezione", "voce,importo;sezione", "Attività,importo,sezione"}

\* Data rows as records: the cell of each column
CsvRecords ==
    {[voce |-> "Cassa", importo |-> "100", sezione |-> "Attività", tipo |-> ""],
     [voce |-> "Debiti v/fornitori", importo |-> "250.5", sezione |-> "Passività", tipo |-> ""],
     [voce |-> "Capitale sociale", importo |-> "300", sezione |-> "PN", tipo |-> ""],
     [voce |-> "Vendite", importo |-> "900", sezione |-> "Conto Economico", tipo |-> "ricavo"],
     [voce |-> "Affitti", importo |-> "50", sezione |-> "Conto Economico", tipo |-> ""],
     [voce |-> "Crediti", importo |-> "-30", sezione |-> "ATTIVITA CORRENTI", tipo |-> ""],
     [voce |-> "Macchinari", importo |-> "abc", sezione |-> "Attività", tipo |-> ""],
     [voce |-> "Spese", importo |-> "", sezione |-> "opnioni", tipo |-> "FISSO"],
     [voce |-> "", importo |-> "7", sezione |-> "", tipo |-> "Variabile"],
     [voce |-> "Mutui", importo |-> "80", sezione |-> "Passività e attività", tipo |-> ""]}

\* The line of a record under a header: the cell of each column, "x" for a column
\* that is none of the four
CsvLine(header, rec, sep) ==
    Join([k \in 1..Len(header) |->
            LET name == Lower(Strip(header[k]))
            IN  IF name = "voce" THEN rec.voce
                ELSE IF name = "importo" THEN rec.importo
                ELSE IF name = "sezione" THEN rec.sezione
                ELSE IF name = "tipo" THEN rec.tipo
                ELSE "x"], sep)

HasNonAscii(lines) == \E k \in 1..Len(lines) : Contains(lines[k], "à")

\* Files with a good header and up to MaxCsvRows rows, and files with another header
\* and at most one row.  Bytes that are not UTF-8 need a non-ASCII letter.
CsvFiles ==
    LET good  == {<<Join(h, sep)>> \o [k \in 1..Len(recs) |-> CsvLine(h, recs[k], sep)] :
                     h \in CsvGoodHeaders, sep \in {",", ";"},
                     recs \in SeqsUpTo(CsvRecords, MaxCsvRows)}
        other == {<<h>> \o r : h \in CsvOtherHeaderLines,
                               r \in {<<>>, <<"Cassa">>, <<"Cassa;100;Attività">>}}
    IN  {[utf8 |-> u, lines |-> l] : u \in BOOLEAN, l \in good \cup other}
        \ {f \in [utf8 : {FALSE}, lines : good \cup other] : ~HasNonAscii(f.lines)}

(***************************************************************************)
(* The tables drawn for extract_data_from_verification_balance             *)
(***************************************************************************)
MaxPdfRows == 2

PdfHeaders4 == {<<"Descrizione", "Dare", "Avere", "Saldo">>}

PdfHeaders5 ==
    {<<"Descrizione", "Dare", "Avere", "Saldo", "Segno">>,
     <<"Descrizione", "Dare", "Avere", "Saldo Dare", "Saldo Avere">>}

PdfRows4 ==
    {<<"Cassa", "100,00", "", "100,00 D">>,
     <<"Debiti v/fornitori", "", "250,50", "250,50 A">>,
     <<"Fondo amm.to impianti", "", "80,00", "-80,00A">>,
     <<"Vendite", "", "1.000,00", "1.000,00 a">>,
     <<"Acquisti materie", "400,00", "", "400,00 D">>,
     <<"Affitti passivi", "50,00", "", "50,00">>,
     <<"Totale attivo", "100,00", "", "100,00 D">>,
     <<"Banca c/c", "", "", "">>,
     <<"1.2 - Crediti", "30,00", "60,00", "-30,00">>,
     <<"Debiti da saldare", "", "20,00", "20,00 A">>,
     <<"12", "5,00", "", "5,00 D">>}

PdfRows5 ==
    {<<"Cassa", "100,00", "", "100,00", "D">>,
     <<"Mutui passivi", "", "500,00", "500,00", "A">>,
     <<"Capitale sociale", "", "0,00", "", "300,00">>,
     <<"Banca c/c", "100,00", "300,00", "-200,00", "">>,
     <<"Clienti", "10,00", "10,00", "0,00", "0,00">>,
     <<"Salari e stipendi", "70,00", "", "70,00", "">>,
     <<"TOTALE", "", "", "", "">>,
     <<"Ricavi delle vendite", "", "900,00", "", "900,00">>}

\* A table of two columns: the code skips it.
PdfRows2 == {<<"Cassa", "100,00 D">>}

\* pdfplumber's tables are rectangular: a header row or none, then the rows.
PdfTables ==
    {h \o r : h \in {<<>>} \cup {<<x>> : x \in PdfHeaders4}, r \in SeqsUpTo(PdfRows4, MaxPdfRows)}
    \cup {h \o r : h \in {<<>>} \cup {<<x>> : x \in PdfHeaders5}, r \in SeqsUpTo(PdfRows5, MaxPdfRows)}
    \cup SeqsUpTo(PdfRows2, 1)

(***************************************************************************)
(* extract_data_from_verification_balance on one page holding one table    *)
(***************************************************************************)
EmptySession == [assets_text |-> "", liabilities_text |-> "", income_text |-> ""]

\* The variables of the script, for the specifications of one parser alone
InitUiIdle ==
    /\ session_state = EmptySession
    /\ uploaded_file = NoFile
    /\ tax_rate = Q(24, 100)
    /\ results = NoResults
    /\ user_text = EmptySession

InitParser ==
    /\ row_i = 0
    /\ assets_data = <<>>
    /\ liabilities_data = <<>>
    /\ income_data = <<>>
    /\ ret = <<>>

InitPdf ==
    /\ pc = "pdf_start"
    /\ pdf_table \in PdfTables
    /\ InitParser
    /\ csv_file = NoCsv /\ cfg_i = 0 /\ df = NoDf /\ st_error = ""
    /\ InitUiIdle

\* for table in tables: if not table or len(table[0]) < 3: continue
PdfBegin ==
    /\ pc = "pdf_start"
    /\ IF pdf_table = <<>> \/ Len(pdf_table[1]) < 3
       THEN pc' = "pdf_return" /\ UNCHANGED row_i
       ELSE pc' = "pdf_rows" /\ row_i' = StartRow(pdf_table)
    /\ UNCHANGED <<pdf_table, assets_data, liabilities_data, income_data, ret, csvVars, uiVars>>

\* The append of the row whose outcome is r
AppendLine(r) ==
    /\ assets_data' = IF r.out = "assets" THEN Append(assets_data, r.line) ELSE assets_data
    /\ liabilities_data' = IF r.out = "liabilities" THEN Append(liabilities_data, r.line)
                           ELSE liabilities_data
    /\ income_data' = IF r.out = "income" THEN Append(income_data, r.line) ELSE income_data

\* one iteration of for row in table[start_idx:]
PdfRowStep ==
    /\ pc = "pdf_rows"
    /\ row_i <= Len(pdf_table)
    /\ AppendLine(PdfRow(pdf_table[row_i], LowerHeaders(pdf_table)))
    /\ row_i' = row_i + 1
    /\ UNCHANGED <<pc, pdf_table, ret, csvVars, uiVars>>

\* return "\n".join(assets_data), "\n".join(liabilities_data), "\n".join(income_data)
PdfReturn ==
    /\ \/ pc = "pdf_return"
       \/ pc = "pdf_rows" /\ row_i > Len(pdf_table)
    /\ pc' = "pdf_done"
    /\ ret' = <<Join(assets_data, "\n"), Join(liabilities_data, "\n"), Join(income_data, "\n")>>
    /\ UNCHANGED <<pdf_table, row_i, assets_data, liabilities_data, income_data, csvVars, uiVars>>

NextPdf == PdfBegin \/ PdfRowStep \/ PdfReturn

SpecPdf == InitPdf /\ [][NextPdf]_vars

(***************************************************************************)
(* Claims about extract_data_from_verification_balance                     *)
(***************************************************************************)
\* list2 is list1 with one line appended
Grows(list1, list2) == Len(list2) = Len(list1) + 1 /\ SubSeq(list2, 1, Len(list1)) = list1

\* The last comma-separated part of a line: the type of an income line
LastPart(line) == LET parts == Split(line, ",") IN parts[Len(parts)]

\* The row of the step is one the code looked for a balance in
PdfRowReached(row) ==
    /\ Len(Cells(row)) >= 2
    /\ Description(Cells(row)) # ""
    /\ ~MACRO_REGEX(Description(Cells(row)))

\* The side of a balance s, "None" when it holds no amount or no side
SideOf(s) == IF s.amount.ok /\ s.side \in {"D", "A"} THEN s.side ELSE "None"

\* The side the code determined for the row, "None" when it found no balance
PdfRowSide(row, table) ==
    IF PdfRowReached(row) THEN SideOf(Saldo(Cells(row), LowerHeaders(table))) ELSE "None"

\* C4: every row a balance and a side were determined for is appended to exactly one
\* of the three lists: a 'D' row to the assets, or to the income typed Variabile or
\* Fisso, never to the liabilities; an 'A' row to the liabilities, or to the income
\* typed Ricavo, never to the assets.
C4_SideConstrainsOutput ==
    [][(pc = "pdf_rows" /\ row_i' = row_i + 1) =>
        LET side == PdfRowSide(pdf_table[row_i], pdf_table)
        IN  /\ side = "D" =>
                 /\ liabilities_data' = liabilities_data
                 /\ \/ Grows(assets_data, assets_data') /\ income_data' = income_data
                    \/ /\ Grows(income_data, income_data') /\ assets_data' = assets_data
                       /\ LastPart(income_data'[Len(income_data')]) \in {"Variabile", "Fisso"}
            /\ side = "A" =>
                 /\ assets_data' = assets_data
                 /\ \/ Grows(liabilities_data, liabilities_data') /\ income_data' = income_data
                    \/ /\ Grows(income_data, income_data') /\ liabilities_data' = liabilities_data
                       /\ LastPart(income_data'[Len(income_data')]) = "Ricavo"]_vars

\* C4 witness: the loop has handled a 'D' row and an 'A' row of one table, one booked
\* as an asset and one as a liability
C4_Witness ==
    /\ pc = "pdf_rows"
    /\ row_i > Len(pdf_table)
    /\ \E i, j \in StartRow(pdf_table)..Len(pdf_table) :
          /\ PdfRowSide(pdf_table[i], pdf_table) = "D"
          /\ PdfRowSide(pdf_table[j], pdf_table) = "A"
    /\ assets_data # <<>>
    /\ liabilities_data # <<>>

\* desc begins with one of the macro-category words, in any case
BeginsWithMacroWord(desc) ==
    \E k \in 1..Len(MacroWords) : StartsWith(Upper(desc), MacroWords[k])

\* C5: a row with at least two cells and a non-empty description is left out of all
\* three lists only when its description begins with a macro-category word: every
\* other such row of a table with at least three columns is appended to one list.
C5_OnlyMacroRowsIgnored ==
    [][(pc = "pdf_rows" /\ row_i' = row_i + 1) =>
        LET cells == Cells(pdf_table[row_i])
        IN  (/\ Len(pdf_table[1]) >= 3
             /\ Len(cells) >= 2
             /\ Description(cells) # ""
             /\ ~BeginsWithMacroWord(Description(cells)))
            => \/ Grows(assets_data, assets_data')
               \/ Grows(liabilities_data, liabilities_data')
               \/ Grows(income_data, income_data')]_vars

(***************************************************************************)
(* parse_csv_file, one loop pass at a time                                 *)
(***************************************************************************)
InitCsv ==
    /\ pc = "csv_configs"
    /\ csv_file \in CsvFiles
    /\ cfg_i = 1
    /\ df = NoDf
    /\ st_error = ""
    /\ InitParser
    /\ pdf_table = <<>>
    /\ InitUiIdle

\* The end of the pass t of the loop over the configs
AfterTry(t) ==
    /\ df' = t.df
    /\ IF t.break \/ cfg_i = Len(configs)
       THEN pc' = "csv_check" /\ UNCHANGED cfg_i
       ELSE pc' = pc /\ cfg_i' = cfg_i + 1

\* one pass of for config in configs
CsvTry ==
    /\ pc = "csv_configs"
    /\ AfterTry(TryConfig(csv_file, configs[cfg_i]))
    /\ UNCHANGED <<csv_file, st_error, pdf_table, parserVars, uiVars>>

\* df.columns = ...; if not all(col in df.columns for col in required_cols): ...
CheckColumns(columns) ==
    /\ df' = [df EXCEPT !.columns = columns]
    /\ IF \E k \in 1..Len(required_cols) : ~InSeq(required_cols[k], columns)
       THEN /\ st_error' = "Errore nelle colonne del CSV."
            /\ ret' = EmptyTriple
            /\ pc' = "csv_done"
            /\ UNCHANGED row_i
       ELSE /\ row_i' = 1
            /\ pc' = "csv_rows"
            /\ UNCHANGED <<st_error, ret>>

\* if df is None: ...; then the check of the columns
CsvCheck ==
    /\ pc = "csv_check"
    /\ IF ~df.ok
       THEN /\ st_error' = "Errore critico: Impossibile analizzare il file CSV."
            /\ ret' = EmptyTriple
            /\ pc' = "csv_done"
            /\ UNCHANGED <<df, row_i>>
       ELSE CheckColumns(NormColumns(df.columns))
    /\ UNCHANGED <<csv_file, cfg_i, pdf_table, assets_data, liabilities_data, income_data, uiVars>>

\* The end of the pass of the loop over the rows whose outcome is r
AfterRow(r) ==
    /\ AppendLine(r)
    /\ IF r.out \in {"ValueError", "KeyError"}
       THEN pc' = "csv_raised" /\ UNCHANGED row_i
       ELSE pc' = pc /\ row_i' = row_i + 1

\* one iteration of for _, row in df.iterrows(): an exception leaves the function
CsvRowStep ==
    /\ pc = "csv_rows"
    /\ row_i <= Len(df.rows)
    /\ AfterRow(CsvRow(df.columns, df.rows[row_i]))
    /\ UNCHANGED <<csvVars, pdf_table, ret, uiVars>>

CsvReturn ==
    /\ pc = "csv_rows"
    /\ row_i > Len(df.rows)
    /\ pc' = "csv_done"
    /\ ret' = <<Join(assets_data, "\n"), Join(liabilities_data, "\n"), Join(income_data, "\n")>>
    /\ UNCHANGED <<csvVars, pdf_table, row_i, assets_data, liabilities_data, income_data, uiVars>>

NextCsv == CsvTry \/ CsvCheck \/ CsvRowStep \/ CsvReturn

SpecCsv == InitCsv /\ [][NextCsv]_vars

(***************************************************************************)
(* Claims about parse_csv_file                                             *)
(***************************************************************************)
\* The frame r was read and has the three required columns
HasRequired(r) ==
    /\ r.ok
    /\ \A name \in {"voce", "importo", "sezione"} : InSeq(name, NormColumns(r.columns))

\* The attempt with config reads the file and finds the three required columns
AttemptHasRequired(file, config) == HasRequired(ReadCsv(file, config))

\* The file lacks a required column under all four attempts
LacksRequired(file) == \A k \in 1..Len(configs) : ~AttemptHasRequired(file, configs[k])

\* C1: for a file that lacks one of voce, importo, sezione under all four attempts,
\* parse_csv_file appends no row to any list, never enters the loop over the rows,
\* and ends by showing an error and returning ("", "", "").
C1_MissingColumnsReported ==
    LacksRequired(csv_file) =>
        /\ assets_data = <<>> /\ liabilities_data = <<>> /\ income_data = <<>>
        /\ pc \in {"csv_configs", "csv_check", "csv_done"}
        /\ pc = "csv_done" => st_error # "" /\ ret = EmptyTriple

\* C1 witness: a file with a data row whose frame has 'voce' but lacks another
\* required column has been refused
C1_Witness ==
    /\ pc = "csv_done"
    /\ LacksRequired(csv_file)
    /\ Len(csv_file.lines) > 1
    /\ df.ok
    /\ st_error = "Errore nelle colonne del CSV."
    /\ ret = EmptyTriple

\* The cell of the row the loop is at, as str(row[name])
RowStr(name) == Str(Get(df.columns, df.rows[row_i], name))

\* The three lists are left as they are
NoneAppended ==
    /\ assets_data' = assets_data
    /\ liabilities_data' = liabilities_data
    /\ income_data' = income_data

\* The only list that changes is `list`, by one line appended
AppendedTo(list) ==
    /\ IF list = "assets" THEN Grows(assets_data, assets_data')
       ELSE assets_data' = assets_data
    /\ IF list = "liabilities" THEN Grows(liabilities_data, liabilities_data')
       ELSE liabilities_data' = liabilities_data
    /\ IF list = "income" THEN Grows(income_data, income_data')
       ELSE income_data' = income_data

\* sezione is the name `name` of the required format, whatever its case and the
\* spaces around it
SezioneIs(sezione, name) == Lower(Strip(sezione)) = Lower(name)

\* C2: every data row is appended to exactly one list chosen by its sezione
\* (Attività: assets; Passività or PN: liabilities; Conto Economico: income), after
\* the rows before it, and a row with any other sezione is appended to none.
C2_RoutedBySezione ==
    [][pc = "csv_rows" /\ row_i <= Len(df.rows) =>
        LET sezione == RowStr("sezione")
        IN  IF SezioneIs(sezione, "Attività") THEN AppendedTo("assets")
            ELSE IF SezioneIs(sezione, "Passività") \/ SezioneIs(sezione, "PN")
            THEN AppendedTo("liabilities")
            ELSE IF SezioneIs(sezione, "Conto Economico") THEN AppendedTo("income")
            ELSE NoneAppended]_vars

\* The row the loop is at carries no tipo: no such column, or an empty cell
NoTipo ==
    \/ ~InSeq("tipo", df.columns)
    \/ Get(df.columns, df.rows[row_i], "tipo").na

\* C3: a Conto Economico row that carries no tipo is appended with the type Fisso,
\* and the row parse_textarea_data reads back from its line is counted in
\* fixed_costs unless its description contains 'utile'.
C3_MissingTipoIsFisso ==
    [][(pc = "csv_rows" /\ row_i <= Len(df.rows) /\ Grows(income_data, income_data')
        /\ NoTipo) =>
        LET line   == income_data'[Len(income_data')]
            parsed == parse_textarea_data(line)
        IN  /\ LastPart(line) = "Fisso"
            /\ Len(parsed) = 1
            /\ IsFixedCost(parsed[1]) \/ Contains(Lower(RowStr("voce")), "utile")]_vars

(***************************************************************************)
(* The script as Streamlit reruns it: one action per interaction, each the *)
(* whole run from the top.  A text area with a key shows and edits         *)
(* st.session_state[key]; the script may assign the key before the widget  *)
(* is drawn; the uploader keeps its file until the user removes it; the    *)
(* button is True only in the run its click starts.                        *)
(***************************************************************************)
\* The files the user selects.  None makes parse_csv_file raise: a run an exception
\* ends draws no text area, and Streamlit then drops the widgets' keys.
UiFiles ==
    {[name  |-> "bilancio.CSV",
      csv   |-> [utf8 |-> TRUE,
                 lines |-> <<"voce;importo;sezione;tipo", "Cassa;100;Attività;",
                             "Capitale sociale;40;PN;", "Vendite;900;Conto Economico;ricavo",
                             "Affitti;50;Conto Economico;">>],
      table |-> <<>>],
     [name  |-> "colonne.csv",
      csv   |-> [utf8 |-> TRUE, lines |-> <<"voce,importo", "Cassa,100">>],
      table |-> <<>>],
     [name  |-> "bilancio di verifica.pdf",
      csv   |-> NoCsv,
      table |-> <<<<"Descrizione", "Dare", "Avere", "Saldo">>,
                  <<"Cassa", "100,00", "", "100,00 D">>,
                  <<"Debiti v/fornitori", "", "60,00", "60,00 A">>,
                  <<"Vendite", "", "900,00", "900,00 A">>>>]}

\* What the user types in a text area
UiTexts == {"", "Cassa,999\nVendite,500,Ricavo", "solo testo\n,\nCassa,abc"}

UiAreas == {"assets_text", "liabilities_text", "income_text"}

UiTaxRates == {Q(24, 100), Q(0, 100)}

InitUi ==
    /\ pc = "ui"
    /\ InitUiIdle
    /\ InitParser
    /\ pdf_table = <<>>
    /\ csv_file = NoCsv /\ cfg_i = 0 /\ df = NoDf /\ st_error = ""

\* What the extraction gives for each file: the same on every run
ExtractedFrom == [f \in UiFiles |-> Extracted(f)]

\* if uploaded_file: what a run extracts from the file in the uploader
Upload(file) == IF file # NoFile THEN ExtractedFrom[file] ELSE [ret |-> EmptyTriple, error |-> ""]

\* A run without the button, its extraction being e: the main area shows the hint
Rerun(state, file, e) ==
    /\ session_state' = SessionAfterUpload(state, file, e.ret)
    /\ results' = NoResults
    /\ assets_data' = <<>>
    /\ liabilities_data' = <<>>
    /\ income_data' = <<>>
    /\ st_error' = e.error

RunWithoutButton(state, file) == Rerun(state, file, Upload(file))

\* The user selects a file: the text areas then show what was extracted from it
UploadFile ==
    /\ pc = "ui"
    /\ \E f \in UiFiles :
          /\ uploaded_file' = f
          /\ RunWithoutButton(session_state, f)
          /\ user_text' = session_state'
    /\ UNCHANGED <<pc, pdf_table, row_i, ret, csv_file, cfg_i, df, tax_rate>>

\* The user removes the file from the uploader
RemoveFile ==
    /\ pc = "ui"
    /\ uploaded_file # NoFile
    /\ uploaded_file' = NoFile
    /\ RunWithoutButton(session_state, NoFile)
    /\ UNCHANGED <<pc, pdf_table, row_i, ret, csv_file, cfg_i, df, tax_rate, user_text>>

\* The user edits one text area and leaves it
EditText ==
    /\ pc = "ui"
    /\ \E area \in UiAreas, t \in UiTexts :
          /\ t # session_state[area]
          /\ RunWithoutButton([session_state EXCEPT ![area] = t], uploaded_file)
          /\ user_text' = [user_text EXCEPT ![area] = t]
    /\ UNCHANGED <<pc, pdf_table, row_i, ret, csv_file, cfg_i, df, tax_rate, uploaded_file>>

\* The user changes the tax rate
SetTaxRate ==
    /\ pc = "ui"
    /\ \E r \in UiTaxRates :
          /\ r # tax_rate
          /\ tax_rate' = r
    /\ RunWithoutButton(session_state, uploaded_file)
    /\ UNCHANGED <<pc, pdf_table, row_i, ret, csv_file, cfg_i, df, uploaded_file, user_text>>

\* if analyze_button: the three lists parsed, and what is shown for them
Analyze(a, l, i, error) ==
    /\ assets_data' = a
    /\ liabilities_data' = l
    /\ income_data' = i
    /\ results' = Elaborate(a, l, i, tax_rate)
    /\ st_error' = IF Insufficient(a, l, i)
                   THEN "Dati insufficienti. Compila tutti i campi richiesti."
                   ELSE error

\* A run with the button, the sidebar leaving the session state `state`
RunWithButton(state, error) ==
    /\ session_state' = state
    /\ Analyze(parse_textarea_data(state.assets_text),
               parse_textarea_data(state.liabilities_text),
               parse_textarea_data(state.income_text), error)

ButtonAfter(e) ==
    RunWithButton(SessionAfterUpload(session_state, uploaded_file, e.ret), e.error)

\* The user clicks 'Elabora Analisi'
PressButton ==
    /\ pc \in {"ui", "analysis"}
    /\ ButtonAfter(Upload(uploaded_file))
    /\ UNCHANGED <<pc, pdf_table, row_i, ret, csv_file, cfg_i, df, tax_rate, uploaded_file,
                   user_text>>

NextUi == UploadFile \/ RemoveFile \/ EditText \/ SetTaxRate \/ PressButton

SpecUi == InitUi /\ [][NextUi]_vars

(***************************************************************************)
(* The analysis block alone: the button pressed on texts drawn from lines  *)
(***************************************************************************)
MaxTextLines == 2

AssetLines ==
    <<"Cassa,100", "Rimanenze di merci,250.5", "Crediti v/clienti,nan">>

LiabilityLines ==
    <<"Debiti v/fornitori,300", "Debiti per mutui,200", "Capitale sociale,400",
      "F.do amm.to impianti,150", "Perdita d'esercizio,-700">>

IncomeLines ==
    <<"Ricavi delle vendite,900,Ricavo", "Resi su vendite,-300,ricavo",
      "Acquisti materie,400,Variabile", "Salari e stipendi,350,Fisso",
      "Utile d'esercizio,120">>

RECURSIVE Pick(_, _, _)
\* The lines of the indexes in set, in the order of the list, from index k on
Pick(lines, set, k) ==
    IF k > Len(lines) THEN <<>>
    ELSE (IF k \in set THEN <<lines[k]>> ELSE <<>>) \o Pick(lines, set, k + 1)

\* The texts of one to MaxTextLines of the lines
TextsOf(lines) ==
    {Join(Pick(lines, set, 1), "\n") :
        set \in {x \in SUBSET (1..Len(lines)) : Cardinality(x) \in 1..MaxTextLines}}

AnalysisTaxRates == {Q(24, 100), Q(100, 100)}

InitAnalysis ==
    /\ pc = "analysis"
    /\ session_state \in [assets_text      : TextsOf(AssetLines),
                          liabilities_text : TextsOf(LiabilityLines),
                          income_text      : TextsOf(IncomeLines)]
    /\ user_text = session_state
    /\ uploaded_file = NoFile
    /\ tax_rate \in AnalysisTaxRates
    /\ results = NoResults
    /\ InitParser
    /\ pdf_table = <<>>
    /\ csv_file = NoCsv /\ cfg_i = 0 /\ df = NoDf /\ st_error = ""

NextAnalysis == PressButton

SpecAnalysis == InitAnalysis /\ [][NextAnalysis]_vars

(***************************************************************************)
(* Claims about the analysis block                                         *)
(***************************************************************************)
\* How many of the three liabilities sums the row d is added to
Buckets(d) ==
    (IF IsCurrentLiability(d) THEN 1 ELSE 0) + (IF IsNonCurrentLiability(d) THEN 1 ELSE 0)
        + (IF IsEquity(d) THEN 1 ELSE 0)

\* The row d is recognised as a depreciation fund
IsFundRow(d) == FUND_REGEX(Lower(d.item)) \/ ContainsAny(Lower(d.item), KW_special_negative)

\* The row d is added to the current or to the non-current liabilities
IsDebt(d) == IsCurrentLiability(d) \/ IsNonCurrentLiability(d)

\* C6: each liabilities row is added to at most one of current_liabilities,
\* non_current_liabilities and equity, so that the two sums of debts together are
\* the sum of the rows added to either; a row recognised as a depreciation fund is
\* added to none of the three and is subtracted once from the total assets.
C6_OneBucketPerRow ==
    results.shown = "results" =>
        /\ \A k \in 1..Len(liabilities_data) :
              /\ Buckets(liabilities_data[k]) <= 1
              /\ IsFundRow(liabilities_data[k]) => Buckets(liabilities_data[k]) = 0
        /\ FAdd(results.calcoli.current_liabilities, results.calcoli.non_current_liabilities)
              = SumAmounts(SelectSeq(liabilities_data, IsDebt))
        /\ results.calcoli.net_total_assets
              = FSub(SumAmounts(assets_data),
                     SumAmounts(SelectSeq(liabilities_data, IsFundRow)))

\* num / den when den is strictly positive, 0 otherwise
Stated(num, den) == IF ~den.nan /\ den.d > 0 /\ den.n > 0 THEN FDiv(num, den) ELSE F(0)

\* The seven ratios whose guard is their denominator
SevenRatios(c, r) ==
    /\ r.current_ratio = Stated(c.current_assets, c.current_liabilities)
    /\ r.quick_ratio = Stated(FSub(c.current_assets, c.rimanenze), c.current_liabilities)
    /\ r.debt_to_equity
          = Stated(FAdd(c.current_liabilities, c.non_current_liabilities), c.equity)
    /\ r.ros = Stated(c.ebit, c.revenues)
    /\ r.roe = Stated(c.net_income, c.equity)
    /\ r.roi = Stated(c.ebit, c.net_total_assets)
    /\ r.contribution_margin_ratio = Stated(c.contribution_margin, c.revenues)

\* No ratio is the outcome of a division by zero
NoZeroDivision(r) ==
    \A name \in DOMAIN r : r[name].d # 0

\* C7: each of the eight ratios is 0 whenever its denominator (for
\* break_even_point, the contribution margin over the revenues) is not strictly
\* positive, and the quotient otherwise.
C7_ZeroUnlessDenominatorPositive ==
    results.shown = "results" =>
        LET c == results.calcoli
            r == results.ratios
        IN  /\ SevenRatios(c, r)
            /\ r.break_even_point
                  = Stated(c.fixed_costs, FDiv(c.contribution_margin, c.revenues))

\* C7 amended: no ratio divides by zero; each of the seven ratios other than
\* break_even_point is 0 whenever its denominator is not strictly positive and the
\* quotient otherwise; break_even_point is fixed costs over (contribution margin
\* over revenues) when the contribution margin and the revenues are both strictly
\* positive, and 0 otherwise.
C7_ZeroUnlessGuardsPositive ==
    results.shown = "results" =>
        LET c == results.calcoli
            r == results.ratios
        IN  /\ NoZeroDivision(r)
            /\ SevenRatios(c, r)
            /\ r.break_even_point
                  = IF FPos(c.contribution_margin) /\ FPos(c.revenues)
                    THEN FDiv(c.fixed_costs, FDiv(c.contribution_margin, c.revenues))
                    ELSE F(0)

\* C7 witness: results with negative revenues and a negative contribution margin,
\* fixed costs, a break-even point of 0 and a current ratio that is a quotient
C7_Witness ==
    /\ results.shown = "results"
    /\ FNeg(results.calcoli.revenues)
    /\ FNeg(results.calcoli.contribution_margin)
    /\ FPos(results.calcoli.fixed_costs)
    /\ results.ratios.break_even_point = F(0)
    /\ FPos(results.calcoli.current_liabilities)
    /\ FPos(results.ratios.current_ratio)
    /\ results.calcoli.equity = F(0)
    /\ results.ratios.roe = F(0)

(***************************************************************************)
(* Claims about the reruns of the script                                   *)
(***************************************************************************)
\* C8: the analysis the button runs parses the three texts as the user last left
\* them, edits made while a file is selected in the uploader included.
C8_AnalysisReadsUserText ==
    results.shown # "info" =>
        /\ assets_data = parse_textarea_data(user_text.assets_text)
        /\ liabilities_data = parse_textarea_data(user_text.liabilities_text)
        /\ income_data = parse_textarea_data(user_text.income_text)

\* The texts the run of the button has parsed
Parsed ==
    [assets      |-> parse_textarea_data(session_state.assets_text),
     liabilities |-> parse_textarea_data(session_state.liabilities_text),
     income      |-> parse_textarea_data(session_state.income_text)]

\* C9: after a run of the button, if one of the three parsed lists is empty the
\* error 'Dati insufficienti' is shown and nothing else is computed or displayed;
\* if none is empty the totals, the ratios and the balance check are.
C9_ResultsOnlyWithAllThree ==
    results.shown # "info" =>
        /\ assets_data = Parsed.assets
        /\ liabilities_data = Parsed.liabilities
        /\ income_data = Parsed.income
        /\ IF assets_data = <<>> \/ liabilities_data = <<>> \/ income_data = <<>>
           THEN /\ results = [shown |-> "Dati insufficienti"]
                /\ st_error = "Dati insufficienti. Compila tutti i campi richiesti."
           ELSE /\ results.shown = "results"
                /\ DOMAIN results = {"shown", "calcoli", "ratios", "balance_diff", "balanced"}
                /\ NoZeroDivision(results.ratios)

\* C9 witness: the button pressed on an income text that is not empty but holds
\* no well-formed line, the two other lists parsed with rows
C9_Witness ==
    /\ results = [shown |-> "Dati insufficienti"]
    /\ session_state.income_text # ""
    /\ income_data = <<>>
    /\ assets_data # <<>>
    /\ liabilities_data # <<>>

====
